---- MODULE Spec2Model ----
(***************************************************************************)
(* Mascot Reactor of the resume-checker page (static/mascot.js): the       *)
(* module state of the IIFE, the page elements it reads and writes, the    *)
(* browser timer queue holding its setTimeout / setInterval callbacks, and *)
(* the pointer events dispatched to the listeners it binds.                *)
(*                                                                         *)
(* Time is kept in milliseconds.  Every pending timer carries the time     *)
(* left until it is due; Tick lets TickMs milliseconds pass and is         *)
(* disabled while a timer is due, so callbacks run at their deadline, in   *)
(* creation order among equal deadlines.  Pointer events may interleave    *)
(* anywhere, also between two callbacks due at the same instant.           *)
(*                                                                         *)
(* The Theme Switcher of the same page is modelled next to it: the stored  *)
(* theme item, the root attribute, the picker with its entries, and the    *)
(* handlers of load, entry click, button click and outside click.  Its     *)
(* overlay timers all run with one delay and need no clock.                *)
(***************************************************************************)
EXTENDS Integers, Sequences, FiniteSets, TLC

(***************************************************************************)
(* Program constants                                                       *)
(***************************************************************************)
FadeDelay == 150
DebounceDelay == 300
StartupDelay == 500
GoodDelay == 3000
UnlockDelay == 5000
RescanInterval == 3000
AtsThreshold == 60
JobMatchThreshold == 50
GrammarThreshold == 70
MissingSkillsLimit == 5

\* The messages are the source's, without the emoji that ends each of them
\* (the module is written in ASCII).
defaultMessage == "Hi! Hover over different sections to see me react!"
atsMessage == "Oh no... your ATS score is low. Let's improve it!"
jobMatchMessage == "Hmm... you're missing many required skills..."
grammarMessage == "Let's fix these grammar issues together!"
missingSkillsMessage == "You need to add these skills to match better..."
goodMessage == "Great job! Your scores look amazing!"
alertColor == "#dc2626"

Expressions == {"standing", "happy", "thinking", "sad"}

\* expressions: the image file of each expression (basePath is the same
\* prefix for all four and is left out).
expressions(e) ==
    CASE e = "standing" -> "fox_standing.png"
      [] e = "happy"    -> "fox_happy.png"
      [] e = "thinking" -> "fox_thinking.png"
      [] e = "sad"      -> "fox_sad.png"

\* Object.keys(expressionMap), in insertion order.
Selectors ==
    << "button[type=\"submit\"]", ".btn-primary", ".btn-success", ".score-card",
       ".strength-item", ".skill-tag",
       "input[type=\"text\"]", "input[type=\"email\"]", "input[type=\"file\"]", "select",
       "textarea", ".file-label", ".upload-card", ".feedback-section",
       ".suggestion-item",
       "a", ".nav-link", ".feature-item", ".auth-card",
       ".missing-skills", ".error", "input[type=\"password\"]" >>

Cfg(x, m) == [expression |-> x, message |-> m]

expressionMap(sel) ==
    CASE sel = "button[type=\"submit\"]" -> Cfg("happy", "Ready? Let's do this!")
      [] sel = ".btn-primary" -> Cfg("happy", "Click here to start the magic!")
      [] sel = ".btn-success" -> Cfg("happy", "Great choice! Let's go!")
      [] sel = ".score-card" -> Cfg("happy", "Let's see your amazing results!")
      [] sel = ".strength-item" -> Cfg("happy", "Wow! This is one of your strengths!")
      [] sel = ".skill-tag" -> Cfg("happy", "You have this skill! Awesome!")
      [] sel = "input[type=\"text\"]" -> Cfg("thinking", "Hmm... what should we enter here?")
      [] sel = "input[type=\"email\"]" -> Cfg("thinking", "Your email address goes here!")
      [] sel = "input[type=\"file\"]" -> Cfg("thinking", "Select your resume file here!")
      [] sel = "select" -> Cfg("thinking", "Let me think... what role are you targeting?")
      [] sel = "textarea" -> Cfg("thinking", "Time to write something thoughtful!")
      [] sel = ".file-label" -> Cfg("thinking", "Pick a resume to analyze!")
      [] sel = ".upload-card" -> Cfg("thinking", "Upload your resume and let's see!")
      [] sel = ".feedback-section" -> Cfg("thinking", "Let me think about these suggestions...")
      [] sel = ".suggestion-item" -> Cfg("thinking", "This is worth considering!")
      [] sel = "a" -> Cfg("standing", "Want to go there? I'll come with you!")
      [] sel = ".nav-link" -> Cfg("standing", "Let's navigate together!")
      [] sel = ".feature-item" -> Cfg("standing", "Check out this cool feature!")
      [] sel = ".auth-card" -> Cfg("standing", "Welcome! Let's get you started!")
      [] sel = ".missing-skills" -> Cfg("sad", "These skills are missing... let's add them!")
      [] sel = ".error" -> Cfg("sad", "Oh no! Something went wrong...")
      [] sel = "input[type=\"password\"]" -> Cfg("thinking", "Keep your secret safe!")

RECURSIVE Gcd(_, _)
Gcd(a, b) == IF b = 0 THEN a ELSE Gcd(b, a % b)

\* The step of the clock: the largest step that lands on every deadline.
TickMs ==
    Gcd(FadeDelay, Gcd(DebounceDelay, Gcd(StartupDelay,
        Gcd(GoodDelay, Gcd(UnlockDelay, RescanInterval)))))

\* The clock stops counting once the lock of the startup check has expired.
Horizon == StartupDelay + UnlockDelay + TickMs

(***************************************************************************)
(* Bounds of the model                                                     *)
(***************************************************************************)
\* Pending timers beyond which no pointer event is explored.
MaxTimers == 3
\* By how much the longer .missing-skills lists exceed MissingSkillsLimit.
MaxExcess == 1

\* Numbers read from the page are told apart up to this value.
MaxValue == 1000000000

(***************************************************************************)
(* parseInt(element.textContent)                                           *)
(***************************************************************************)
\* A number as parseInt returns it: NaN, or an integer.
NaN == [isNaN |-> TRUE, value |-> 0]
Number(n) == [isNaN |-> FALSE, value |-> n]

IsDigit(c) == c \in {"0", "1", "2", "3", "4", "5", "6", "7", "8", "9"}

DigitVal(c) ==
    CASE c = "0" -> 0 [] c = "1" -> 1 [] c = "2" -> 2 [] c = "3" -> 3
      [] c = "4" -> 4 [] c = "5" -> 5 [] c = "6" -> 6 [] c = "7" -> 7
      [] c = "8" -> 8 [] c = "9" -> 9

IsHexDigit(c) ==
    IsDigit(c) \/ c \in {"a", "b", "c", "d", "e", "f",
                         "A", "B", "C", "D", "E", "F"}

HexVal(c) ==
    CASE IsDigit(c) -> DigitVal(c)
      [] c \in {"a", "A"} -> 10 [] c \in {"b", "B"} -> 11
      [] c \in {"c", "C"} -> 12 [] c \in {"d", "D"} -> 13
      [] c \in {"e", "E"} -> 14 [] c \in {"f", "F"} -> 15

\* StrWhiteSpaceChar, which parseInt strips from the front of the text:
\* TAB, VT, FF, SP, NBSP, ZWNBSP, the space separators (Zs), LF, CR, LS, PS.
\* A character is written as itself where a TLA+ string can hold it (VT,
\* U+00A0, U+1680 and U+FEFF stand in the second line of the set), and by
\* its code point where it cannot.
IsSpace(c) ==
    c \in {" ", "\t", "\n", "\r", "\f",
           "", " ", " ", "﻿",
           "U+2000", "U+2001", "U+2002", "U+2003", "U+2004", "U+2005",
           "U+2006", "U+2007", "U+2008", "U+2009", "U+200A", "U+2028",
           "U+2029", "U+202F", "U+205F", "U+3000"}

RECURSIVE SkipSpace(_)
SkipSpace(t) ==
    IF t # <<>> /\ IsSpace(Head(t)) THEN SkipSpace(Tail(t)) ELSE t

\* The digits of the radix at the front of t, folded into acc; seen tells
\* whether a digit was read at all.  A value of MaxValue or more is kept as
\* MaxValue: the script only compares the number with its thresholds.
RECURSIVE ReadDigits(_, _, _, _)
ReadDigits(t, radix, acc, seen) ==
    IF t # <<>> /\ (IF radix = 16 THEN IsHexDigit(Head(t)) ELSE IsDigit(Head(t)))
    THEN ReadDigits(Tail(t), radix,
                    IF acc >= MaxValue \div radix
                    THEN MaxValue
                    ELSE radix * acc + HexVal(Head(t)),
                    TRUE)
    ELSE [value |-> acc, seen |-> seen]

\* parseInt of a text given as a sequence of characters, no radix given:
\* leading white space is skipped, one sign is read, a 0x or 0X prefix
\* selects radix 16, then digits are read up to the first other character;
\* NaN when no digit is read.
ParseInt(t) ==
    LET s == SkipSpace(t)
        neg == s # <<>> /\ Head(s) = "-"
        body == IF s # <<>> /\ Head(s) \in {"-", "+"} THEN Tail(s) ELSE s
        hex == Len(body) >= 2 /\ body[1] = "0" /\ body[2] \in {"x", "X"}
        r == IF hex THEN ReadDigits(Tail(Tail(body)), 16, 0, FALSE)
             ELSE ReadDigits(body, 10, 0, FALSE)
    IN  IF ~r.seen THEN NaN
        ELSE IF neg THEN Number(0 - r.value) ELSE Number(r.value)

\* A comparison that takes NaN for a number below every limit.
LessThanOrNaN(score, limit) == score.isNaN \/ score.value < limit

\* score < limit in JavaScript: false whenever score is NaN.
LessThan(score, limit) == ~score.isNaN /\ score.value < limit

(***************************************************************************)
(* The page                                                                *)
(***************************************************************************)
\* Hoverable elements of the page template and the registered selectors each
\* matches.  link is an anchor with class nav-link inside the score card.
Elements == {"card", "link", "field", "skills"}
NoParent == "none"

Matches(el) ==
    CASE el = "card"   -> {".score-card"}
      [] el = "link"   -> {"a", ".nav-link"}
      [] el = "field"  -> {"input[type=\"text\"]"}
      [] el = "skills" -> {".missing-skills"}

Parent(el) == IF el = "link" THEN "card" ELSE NoParent

Ancestors(el) == IF Parent(el) = NoParent THEN {} ELSE {Parent(el)}

\* What document.querySelector returns for a score readout: null, or an
\* element with its textContent as characters.
Null == [present |-> FALSE, textContent |-> <<>>]
Readout(text) == [present |-> TRUE, textContent |-> text]

VARIABLES
    mascotEl,          \* document.querySelector('.mascot') is an element
    bubbleEl,          \* document.querySelector('.bubble-text') is an element
    pc,                \* "load" before the script runs, then "on" or "off"
    currentExpression,
    isLocked,
    hoverTimeout,      \* "null", or the state of the timer the handle names
    mascotSrc,         \* mascot.src (file name)
    mascotOpacity,     \* mascot.style.opacity
    mascotTransition,  \* mascot.style.transition
    bubbleText,        \* bubble.textContent
    bubbleColor,       \* bubble.style.color
    timers,            \* pending timers, in creation order
    listeners,         \* per element: the selectors of its listener pairs
    marker,            \* elements carrying data-mascot-listener
    present,           \* hoverable elements in the document
    pendingLoad,       \* hoverable elements that arrive asynchronously
    hovered,           \* elements the pointer is over
    atsScore,          \* the .ats-score .score-value readout, or Null
    jobMatchScore,     \* the .job-match-score .score-value readout, or Null
    grammarScore,      \* the .grammar-score .score-value readout, or Null
    missingChildren,   \* children.length of the .missing-skills element
    lowScore,          \* checkScores' local, as last computed
    sadMessage,        \* checkScores' local, as last computed
    now,               \* milliseconds since the script ran, up to Horizon
    storedTheme,       \* localStorage item 'theme', or NoValue
    dataTheme,         \* the root element's data-theme attribute, or NoValue
    options,           \* the .theme-option entries of the picker, in order
    selectorShow,      \* #theme-selector carries the class 'show'
    overlayActive,     \* #theme-transition-overlay carries 'active'
    overlayTimers,     \* pending callbacks that remove the overlay's 'active'
    scrollBehavior,    \* document.documentElement.style.scrollBehavior
    themePc,           \* "loading" until DOMContentLoaded ran, then "ready"
    selectorEl,        \* document.getElementById('theme-selector') exists
    buttonEl,          \* document.getElementById('theme-button') exists
    overlayEl,         \* the transition overlay element exists
    lastThemeName,     \* argument of this document's latest applyTheme call
    leftThemeName      \* lastThemeName of the document the reload left

vars == << mascotEl, bubbleEl, pc, currentExpression, isLocked, hoverTimeout,
           mascotSrc, mascotOpacity, mascotTransition, bubbleText, bubbleColor,
           timers, listeners, marker, present, pendingLoad, hovered,
           atsScore, jobMatchScore, grammarScore, missingChildren,
           lowScore, sadMessage, now,
           storedTheme, dataTheme, options, selectorShow, overlayActive,
           overlayTimers, scrollBehavior, themePc, selectorEl, buttonEl,
           overlayEl, lastThemeName, leftThemeName >>

\* The state of the theme switcher, which the mascot script never touches.
switcher == << storedTheme, dataTheme, options, selectorShow,
               overlayActive,
               overlayTimers, scrollBehavior, themePc, selectorEl,
               buttonEl, overlayEl, lastThemeName, leftThemeName >>

page == << mascotEl, bubbleEl, atsScore, jobMatchScore, grammarScore,
           missingChildren >>

\* The mascot script's state and page, which the theme script never touches.
reactor == << mascotEl, bubbleEl, pc, currentExpression, isLocked,
              hoverTimeout, mascotSrc, mascotOpacity, mascotTransition,
              bubbleText, bubbleColor, timers, listeners, marker, present,
              pendingLoad, hovered, atsScore, jobMatchScore, grammarScore,
              missingChildren, lowScore, sadMessage, now >>

(***************************************************************************)
(* The theme switcher's document.  A storage item or an attribute is       *)
(* either missing (getItem and getAttribute return null) or holds a        *)
(* string.                                                                 *)
(***************************************************************************)
NoValue == [has |-> FALSE, value |-> ""]

Str(v) == [has |-> TRUE, value |-> v]

\* A document as the template delivers it, before any script has acted.
FreshDocument ==
    /\ themePc = "loading"
    /\ dataTheme = NoValue
    /\ options = <<>>
    /\ selectorShow = FALSE
    /\ overlayActive = FALSE
    /\ overlayTimers = 0
    /\ scrollBehavior = ""

\* The two scripts share no state: a specification of the mascot holds the
\* theme switcher at a fresh document without its elements.
SwitcherIdle ==
    /\ FreshDocument
    /\ storedTheme = NoValue
    /\ lastThemeName = NoValue
    /\ leftThemeName = NoValue
    /\ selectorEl = FALSE
    /\ buttonEl = FALSE
    /\ overlayEl = FALSE

(***************************************************************************)
(* The reactor's mutable state as one record, so that a handler is the     *)
(* composition of the functions it calls.                                  *)
(***************************************************************************)
Reactor ==
    [ currentExpression |-> currentExpression, isLocked |-> isLocked,
      hoverTimeout |-> hoverTimeout, mascotSrc |-> mascotSrc,
      mascotOpacity |-> mascotOpacity, mascotTransition |-> mascotTransition,
      bubbleText |-> bubbleText, bubbleColor |-> bubbleColor,
      timers |-> timers, listeners |-> listeners, marker |-> marker,
      lowScore |-> lowScore, sadMessage |-> sadMessage ]

Becomes(s) ==
    /\ currentExpression' = s.currentExpression
    /\ isLocked' = s.isLocked
    /\ hoverTimeout' = s.hoverTimeout
    /\ mascotSrc' = s.mascotSrc
    /\ mascotOpacity' = s.mascotOpacity
    /\ mascotTransition' = s.mascotTransition
    /\ bubbleText' = s.bubbleText
    /\ bubbleColor' = s.bubbleColor
    /\ timers' = s.timers
    /\ listeners' = s.listeners
    /\ marker' = s.marker
    /\ lowScore' = s.lowScore
    /\ sadMessage' = s.sadMessage

(***************************************************************************)
(* Timers.  fn names the callback, arg its captured variable, rem the      *)
(* milliseconds left; held marks the timer whose handle hoverTimeout       *)
(* holds.  A handle is only ever compared by clearTimeout, so hoverTimeout *)
(* is kept as the state of the timer it names: "null", "pending", "fired"  *)
(* or "cleared".                                                           *)
(***************************************************************************)
NoArg == "-"

Timer(fn, arg, delay, held) ==
    [fn |-> fn, arg |-> arg, rem |-> delay, held |-> held]

\* setTimeout(fn, delay), the handle dropped.
SetTimeout(s, fn, arg, delay) ==
    [s EXCEPT !.timers = Append(@, Timer(fn, arg, delay, FALSE))]

\* clearTimeout(hoverTimeout): removes the timer the handle names, if it is
\* still pending; a null handle or the handle of a timer that has run or
\* was cleared removes nothing.
ClearHoverTimeout(s) ==
    [s EXCEPT !.timers = SelectSeq(@, LAMBDA t : ~t.held),
              !.hoverTimeout = IF @ = "pending" THEN "cleared" ELSE @]

\* hoverTimeout = setTimeout(resetMascot, 300)
SetHoverTimeout(s) ==
    [s EXCEPT !.timers =
                 Append([i \in DOMAIN @ |-> [@[i] EXCEPT !.held = FALSE]],
                        Timer("resetMascot", NoArg, DebounceDelay, TRUE)),
              !.hoverTimeout = "pending"]

RemoveAt(q, i) == [j \in 1..(Len(q) - 1) |-> IF j < i THEN q[j] ELSE q[j + 1]]

\* The timer the event loop runs next: the oldest one that is due.
Due(i) ==
    /\ i \in DOMAIN timers
    /\ timers[i].rem = 0
    /\ \A j \in 1..(i - 1) : timers[j].rem > 0

\* The reactor once timer i has left the queue to run.
Taken(i) ==
    [Reactor EXCEPT !.timers = RemoveAt(@, i),
                    !.hoverTimeout = IF timers[i].held THEN "fired" ELSE @]

(***************************************************************************)
(* changeMascotExpression, resetMascot and the fade callback               *)
(***************************************************************************)
\* changeMascotExpression without its lock test.
ChangeMascotExpressionUnlocked(s, expression, message) ==
    LET faded ==
            IF expression # s.currentExpression
            THEN SetTimeout([s EXCEPT !.mascotOpacity = "0.5"],
                            "fade", expression, FadeDelay)
            ELSE s
    IN  IF message # "" THEN [faded EXCEPT !.bubbleText = message]
        ELSE faded

ChangeMascotExpression(s, expression, message) ==
    IF s.isLocked THEN s
    ELSE LET faded ==
                 IF expression # s.currentExpression
                 THEN SetTimeout([s EXCEPT !.mascotOpacity = "0.5"],
                                 "fade", expression, FadeDelay)
                 ELSE s
         IN  IF message # "" THEN [faded EXCEPT !.bubbleText = message]
             ELSE faded

\* resetMascot handing no message on.
ResetMascotNoMessage(s) ==
    IF s.isLocked THEN s
    ELSE IF s.currentExpression # "standing"
    THEN SetTimeout([s EXCEPT !.mascotOpacity = "0.5"],
                    "fade", "standing", FadeDelay)
    ELSE s

ResetMascot(s) ==
    IF s.isLocked THEN s
    ELSE ChangeMascotExpression(s, "standing", defaultMessage)

\* A fade callback that swaps the image and forgets to record it.
FadeCallbackImageOnly(s, expression) ==
    [s EXCEPT !.mascotSrc = expressions(expression),
              !.mascotOpacity = "1"]

\* The arrow function changeMascotExpression hands to setTimeout.
FadeCallback(s, expression) ==
    [s EXCEPT !.mascotSrc = expressions(expression),
              !.currentExpression = expression,
              !.mascotOpacity = "1"]

(***************************************************************************)
(* checkScores                                                             *)
(***************************************************************************)
\* The chain of rule tests with the !lowScore guards left out.
ScoreRulesUnguarded ==
    LET r0 == [lowScore |-> FALSE, sadMessage |-> ""]
        r1 == IF atsScore.present
                 /\ LessThan(ParseInt(atsScore.textContent), AtsThreshold)
              THEN [lowScore |-> TRUE, sadMessage |-> atsMessage]
              ELSE r0
        r2 == IF jobMatchScore.present
                 /\ LessThan(ParseInt(jobMatchScore.textContent),
                             JobMatchThreshold)
              THEN [lowScore |-> TRUE, sadMessage |-> jobMatchMessage]
              ELSE r1
        r3 == IF grammarScore.present
                 /\ LessThan(ParseInt(grammarScore.textContent),
                             GrammarThreshold)
              THEN [lowScore |-> TRUE, sadMessage |-> grammarMessage]
              ELSE r2
        r4 == IF "skills" \in present
                 /\ missingChildren > MissingSkillsLimit
              THEN [lowScore |-> TRUE, sadMessage |-> missingSkillsMessage]
              ELSE r3
    IN  r4

\* The locals lowScore and sadMessage after the chain of rule tests.
ScoreRules ==
    LET r0 == [lowScore |-> FALSE, sadMessage |-> ""]
        r1 == IF atsScore.present
                 /\ LessThan(ParseInt(atsScore.textContent), AtsThreshold)
              THEN [lowScore |-> TRUE, sadMessage |-> atsMessage]
              ELSE r0
        r2 == IF ~r1.lowScore /\ jobMatchScore.present
                 /\ LessThan(ParseInt(jobMatchScore.textContent),
                             JobMatchThreshold)
              THEN [lowScore |-> TRUE, sadMessage |-> jobMatchMessage]
              ELSE r1
        r3 == IF ~r2.lowScore /\ grammarScore.present
                 /\ LessThan(ParseInt(grammarScore.textContent),
                             GrammarThreshold)
              THEN [lowScore |-> TRUE, sadMessage |-> grammarMessage]
              ELSE r2
        r4 == IF ~r3.lowScore /\ "skills" \in present
                 /\ missingChildren > MissingSkillsLimit
              THEN [lowScore |-> TRUE, sadMessage |-> missingSkillsMessage]
              ELSE r3
    IN  r4

\* The good-score branch taken whatever the page holds.
GoodScoresAlways == TRUE

\* The condition of the branch checkScores takes once no rule matched.
GoodScores == atsScore.present \/ jobMatchScore.present

CheckScores(s) ==
    LET r == ScoreRules
        t == [s EXCEPT !.lowScore = r.lowScore, !.sadMessage = r.sadMessage]
    IN  IF r.lowScore
        THEN LET locked == [t EXCEPT !.isLocked = TRUE]
                 shown == ChangeMascotExpression(locked, "sad", r.sadMessage)
             IN  SetTimeout([shown EXCEPT !.bubbleColor = alertColor],
                            "unlock", NoArg, UnlockDelay)
        ELSE IF GoodScores
        THEN SetTimeout(ChangeMascotExpression(t, "happy", goodMessage),
                        "resetMascot", NoArg, GoodDelay)
        ELSE t

\* An unlock callback that clears the colour and keeps the lock.
UnlockCallbackColour(s) == [s EXCEPT !.bubbleColor = ""]

\* The arrow function checkScores hands to setTimeout.
UnlockCallback(s) == [s EXCEPT !.isLocked = FALSE, !.bubbleColor = ""]

(***************************************************************************)
(* setupHoverDetection                                                     *)
(***************************************************************************)
\* A scan that never finds the marker.
HasMarkerNever(s, el) == FALSE

\* element.hasAttribute('data-mascot-listener')
HasMarker(s, el) == el \in s.marker

\* The body of elements.forEach for one element matched by sel.
Bind(s, sel, el) ==
    IF HasMarker(s, el) THEN s
    ELSE [s EXCEPT !.marker = @ \cup {el},
                   !.listeners[el] = Append(@, sel)]

\* document.querySelectorAll(sel), over the hoverable elements.
QuerySelectorAll(sel) == {el \in present : sel \in Matches(el)}

RECURSIVE BindAll(_, _, _)
BindAll(s, sel, els) ==
    IF els = {} THEN s
    ELSE LET el == CHOOSE x \in els : TRUE
         IN  BindAll(Bind(s, sel, el), sel, els \ {el})

RECURSIVE ScanFrom(_, _)
ScanFrom(s, i) ==
    IF i > Len(Selectors) THEN s
    ELSE ScanFrom(BindAll(s, Selectors[i], QuerySelectorAll(Selectors[i])),
                  i + 1)

SetupHoverDetection(s) == ScanFrom(s, 1)

(***************************************************************************)
(* The listeners setupHoverDetection adds                                  *)
(***************************************************************************)
OnMouseEnter(s, sel) ==
    LET config == expressionMap(sel)
    IN  ChangeMascotExpression(ClearHoverTimeout(s),
                               config.expression, config.message)

OnMouseLeave(s, sel) == SetHoverTimeout(ClearHoverTimeout(s))

\* The listeners of one element run in the order they were added.
RECURSIVE Dispatch(_, _, _)
Dispatch(s, sels, entering) ==
    IF sels = <<>> THEN s
    ELSE Dispatch(IF entering THEN OnMouseEnter(s, Head(sels))
                  ELSE OnMouseLeave(s, Head(sels)),
                  Tail(sels), entering)

(***************************************************************************)
(* Initial states: the page as the template rendered it, before the script *)
(* runs.                                                                   *)
(***************************************************************************)
templateCaption == ""
templateImage == "fox_standing.png"

InitReactor ==
    /\ pc = "load"
    /\ currentExpression = "standing"
    /\ isLocked = FALSE
    /\ hoverTimeout = "null"
    /\ mascotSrc = templateImage
    /\ mascotOpacity = ""
    /\ mascotTransition = ""
    /\ bubbleText = templateCaption
    /\ bubbleColor = ""
    /\ timers = <<>>
    /\ listeners = [el \in Elements |-> <<>>]
    /\ marker = {}
    /\ hovered = {}
    /\ lowScore = FALSE
    /\ sadMessage = ""
    /\ now = 0

\* A page with hoverable content, part of it loaded later, and at most an
\* ATS readout.
Init ==
    /\ InitReactor
    /\ SwitcherIdle
    /\ mascotEl \in BOOLEAN
    /\ bubbleEl \in BOOLEAN
    /\ present = {"card", "link"}
    /\ pendingLoad = {"field"}
    /\ atsScore \in {Null, Readout(<<"4", "5">>), Readout(<<"8", "5", "%">>)}
    /\ jobMatchScore = Null
    /\ grammarScore = Null
    /\ missingChildren = 0

\* The readouts a result page may hold: values at and just below each
\* threshold, and texts that are not plain numbers.
AtsTexts == { <<"5", "9">>, <<"6", "0">>, <<"N", "/", "A">> }
JobMatchTexts == { <<"4", "9">>, <<"5", "0", "%">> }
GrammarTexts == { <<" ", "6", "9">>, <<"7", "0">> }

\* A result page: any combination of readouts, and a .missing-skills list
\* that is in the document from the start or arrives later.
InitScores ==
    /\ InitReactor
    /\ SwitcherIdle
    /\ mascotEl = TRUE
    /\ bubbleEl = TRUE
    /\ atsScore \in {Null} \cup {Readout(t) : t \in AtsTexts}
    /\ jobMatchScore \in {Null} \cup {Readout(t) : t \in JobMatchTexts}
    /\ grammarScore \in {Null} \cup {Readout(t) : t \in GrammarTexts}
    /\ \/ /\ present = {"skills"}
          /\ pendingLoad = {}
          /\ missingChildren \in
                {MissingSkillsLimit, MissingSkillsLimit + MaxExcess}
       \/ /\ present = {}
          /\ pendingLoad = {"skills"}
          /\ missingChildren = MissingSkillsLimit + MaxExcess

(***************************************************************************)
(* Actions                                                                 *)
(***************************************************************************)
\* The guard returning only when both elements are missing.
MissingBoth == ~mascotEl /\ ~bubbleEl

\* !mascot || !bubble
MissingElement == ~mascotEl \/ ~bubbleEl

\* The IIFE: the guard, then init() and setInterval.
RunScript ==
    /\ pc = "load"
    /\ IF MissingElement
       THEN /\ pc' = "off"
            /\ Becomes(Reactor)
       ELSE /\ pc' = "on"
            /\ Becomes([Reactor EXCEPT
                   !.mascotTransition = "opacity 0.2s ease",
                   !.bubbleText = defaultMessage,
                   !.timers = << Timer("startup", NoArg, StartupDelay, FALSE),
                                 Timer("interval", NoArg, RescanInterval, FALSE) >>])
    /\ UNCHANGED << switcher, page, present, pendingLoad, hovered, now >>

\* TickMs milliseconds pass with no timer due.
Tick ==
    /\ pc # "load"
    /\ timers # <<>> \/ now < Horizon
    /\ \A i \in DOMAIN timers : timers[i].rem > 0
    /\ timers' = [i \in DOMAIN timers |-> [timers[i] EXCEPT !.rem = @ - TickMs]]
    /\ now' = IF now < Horizon THEN now + TickMs ELSE now
    /\ UNCHANGED << switcher, page, pc, currentExpression, isLocked, hoverTimeout,
                    mascotSrc, mascotOpacity, mascotTransition, bubbleText,
                    bubbleColor, listeners, marker, present, pendingLoad,
                    hovered, lowScore, sadMessage >>

\* The callback init() schedules: checkScores(); setupHoverDetection().
StartupTimer ==
    \E i \in DOMAIN timers :
       /\ Due(i)
       /\ timers[i].fn = "startup"
       /\ Becomes(SetupHoverDetection(CheckScores(Taken(i))))
       /\ UNCHANGED << switcher, page, pc, present, pendingLoad, hovered, now >>

FadeTimer ==
    \E i \in DOMAIN timers :
       /\ Due(i)
       /\ timers[i].fn = "fade"
       /\ Becomes(FadeCallback(Taken(i), timers[i].arg))
       /\ UNCHANGED << switcher, page, pc, present, pendingLoad, hovered, now >>

\* A timer whose callback is resetMascot: the debounced reset of a
\* hover-leave, or the revert of the good-score reaction.
ResetTimer ==
    \E i \in DOMAIN timers :
       /\ Due(i)
       /\ timers[i].fn = "resetMascot"
       /\ Becomes(ResetMascot(Taken(i)))
       /\ UNCHANGED << switcher, page, pc, present, pendingLoad, hovered, now >>

UnlockTimer ==
    \E i \in DOMAIN timers :
       /\ Due(i)
       /\ timers[i].fn = "unlock"
       /\ Becomes(UnlockCallback(Taken(i)))
       /\ UNCHANGED << switcher, page, pc, present, pendingLoad, hovered, now >>

\* setInterval(setupHoverDetection, 3000): the scan, and the next round.
IntervalTimer ==
    \E i \in DOMAIN timers :
       /\ Due(i)
       /\ timers[i].fn = "interval"
       /\ Becomes(SetTimeout(SetupHoverDetection(Taken(i)),
                             "interval", NoArg, RescanInterval))
       /\ UNCHANGED << switcher, page, pc, present, pendingLoad, hovered, now >>

\* The pointer comes over el: mouseenter is dispatched to its listeners.
\* The elements under the pointer are always one element and its ancestors.
MouseEnter(el) ==
    /\ el \in present
    /\ el \notin hovered
    /\ hovered = Ancestors(el)
    /\ Len(timers) < MaxTimers
    /\ hovered' = hovered \cup {el}
    /\ Becomes(Dispatch(Reactor, listeners[el], TRUE))
    /\ UNCHANGED << switcher, page, pc, present, pendingLoad, now >>

\* The pointer leaves el (it is over none of el's descendants).
MouseLeave(el) ==
    /\ el \in hovered
    /\ \A c \in hovered : el \notin Ancestors(c)
    /\ Len(timers) < MaxTimers
    /\ hovered' = hovered \ {el}
    /\ Becomes(Dispatch(Reactor, listeners[el], FALSE))
    /\ UNCHANGED << switcher, page, pc, present, pendingLoad, now >>

\* Content loaded after the initial setup adds el to the document.
AddElement(el) ==
    /\ el \in pendingLoad
    /\ Ancestors(el) \subseteq present
    /\ present' = present \cup {el}
    /\ pendingLoad' = pendingLoad \ {el}
    /\ UNCHANGED << switcher, page, pc, currentExpression, isLocked, hoverTimeout,
                    mascotSrc, mascotOpacity, mascotTransition, bubbleText,
                    bubbleColor, timers, listeners, marker, hovered,
                    lowScore, sadMessage, now >>

Next ==
    \/ RunScript
    \/ Tick
    \/ StartupTimer
    \/ FadeTimer
    \/ ResetTimer
    \/ UnlockTimer
    \/ IntervalTimer
    \/ \E el \in Elements : MouseEnter(el)
    \/ \E el \in Elements : MouseLeave(el)
    \/ \E el \in Elements : AddElement(el)

Spec == Init /\ [][Next]_vars

SpecScores == InitScores /\ [][Next]_vars

\* A page on which the startup check takes the lock: an ATS readout below
\* the threshold, hoverable content, part of it loaded later.
InitLocking ==
    /\ InitReactor
    /\ SwitcherIdle
    /\ mascotEl = TRUE
    /\ bubbleEl = TRUE
    /\ present = {"card"}
    /\ pendingLoad = {"field"}
    /\ atsScore = Readout(<<"4", "5">>)
    /\ jobMatchScore = Null
    /\ grammarScore = Null
    /\ missingChildren = 0

\* What the event loop does of its own: it starts the script, runs a
\* callback that is due, or lets time pass.
EventLoop ==
    \/ RunScript
    \/ Tick
    \/ StartupTimer
    \/ FadeTimer
    \/ ResetTimer
    \/ UnlockTimer
    \/ IntervalTimer

\* The event loop never stops; the pointer and the late content are under
\* no obligation.
SpecLive == InitLocking /\ [][Next]_vars /\ WF_vars(EventLoop)

\* The texts of readouts that hold no number (a placeholder, dashes, no
\* text at all), next to one that holds a number (the grammar one after a
\* no-break space).
AtsPlaceholders == { <<"N", "/", "A">>, <<"6", "0">> }
JobMatchPlaceholders == { <<>>, <<"5", "0", "%">> }
GrammarPlaceholders == { <<"-", "-">>, <<" ", "6", "9">> }

\* A result page some of whose readouts have not been filled in.
InitUnparsed ==
    /\ InitReactor
    /\ SwitcherIdle
    /\ mascotEl = TRUE
    /\ bubbleEl = TRUE
    /\ atsScore \in {Null} \cup {Readout(t) : t \in AtsPlaceholders}
    /\ jobMatchScore \in {Null} \cup {Readout(t) : t \in JobMatchPlaceholders}
    /\ grammarScore \in {Null} \cup {Readout(t) : t \in GrammarPlaceholders}
    /\ \/ /\ present = {"skills"}
          /\ pendingLoad = {}
          /\ missingChildren \in
                {MissingSkillsLimit, MissingSkillsLimit + MaxExcess}
       \/ /\ present = {}
          /\ pendingLoad = {"skills"}
          /\ missingChildren = MissingSkillsLimit + MaxExcess

SpecUnparsed == InitUnparsed /\ [][Next]_vars

(***************************************************************************)
(* The theme switcher                                                      *)
(***************************************************************************)
\* Object.keys(themes): the catalog's keys in insertion order.
ThemeKeys == << "dark-purple", "ocean", "sunset", "forest", "cyberpunk" >>

\* The catalog entry of a key (the icon glyphs are left out).
themes(themeKey) ==
    CASE themeKey = "dark-purple" ->
           [name |-> "Dark Purple", primary |-> "#6366f1", secondary |-> "#8b5cf6"]
      [] themeKey = "ocean" ->
           [name |-> "Ocean Blue", primary |-> "#06b6d4", secondary |-> "#14b8a6"]
      [] themeKey = "sunset" ->
           [name |-> "Sunset Orange", primary |-> "#f97316", secondary |-> "#ec4899"]
      [] themeKey = "forest" ->
           [name |-> "Forest Green", primary |-> "#10b981", secondary |-> "#059669"]
      [] themeKey = "cyberpunk" ->
           [name |-> "Cyberpunk", primary |-> "#ec4899", secondary |-> "#06b6d4"]

defaultTheme == "dark-purple"

\* The ids applyTheme is called with: the catalog's keys, an id the catalog
\* does not hold, and the empty string.
ThemeIds == {ThemeKeys[i] : i \in DOMAIN ThemeKeys} \cup {"neon", ""}

\* The switcher's mutable state as one record.
Switcher ==
    [storedTheme |-> storedTheme, dataTheme |-> dataTheme, options |-> options,
     selectorShow |-> selectorShow, overlayActive |-> overlayActive,
     overlayTimers |-> overlayTimers, lastThemeName |-> lastThemeName]

Shows(s) ==
    /\ storedTheme' = s.storedTheme
    /\ dataTheme' = s.dataTheme
    /\ options' = s.options
    /\ selectorShow' = s.selectorShow
    /\ overlayActive' = s.overlayActive
    /\ overlayTimers' = s.overlayTimers
    /\ lastThemeName' = s.lastThemeName

\* A load that ignores the storage.
getSavedThemeDefault(s) == defaultTheme

\* localStorage.getItem('theme') || 'dark-purple': null and the empty
\* string are both falsy.
getSavedTheme(s) ==
    IF s.storedTheme.has /\ s.storedTheme.value # ""
    THEN s.storedTheme.value
    ELSE defaultTheme

\* applyTheme that leaves the picker's markers as they were.
applyThemeUnmarked(s, id) ==
    LET t == [s EXCEPT !.dataTheme = Str(id), !.storedTheme = Str(id),
                       !.lastThemeName = Str(id)]
    IN  IF overlayEl
        THEN [t EXCEPT !.overlayActive = TRUE, !.overlayTimers = @ + 1]
        ELSE t

\* applyTheme(themeName): the root attribute, the storage item, the active
\* marker of every .theme-option, and the overlay with the timer that
\* removes its marker.
applyTheme(s, id) ==
    LET marked == [i \in DOMAIN s.options |->
                     [s.options[i] EXCEPT !.active = (s.options[i].theme = id)]]
        t == [s EXCEPT !.dataTheme = Str(id), !.storedTheme = Str(id),
                       !.options = marked, !.lastThemeName = Str(id)]
    IN  IF overlayEl
        THEN [t EXCEPT !.overlayActive = TRUE, !.overlayTimers = @ + 1]
        ELSE t

\* selector.classList.toggle('show')
toggleThemeSelector(s) == [s EXCEPT !.selectorShow = ~@]

\* The document's click listener, for a click whose target is inside the
\* picker (inSelector), inside the toggle button (inButton) or elsewhere.
DocumentClick(s, inSelector, inButton) ==
    IF selectorEl /\ buttonEl /\ ~inSelector /\ ~inButton
    THEN [s EXCEPT !.selectorShow = FALSE]
    ELSE s

\* An entry created without regard to the saved theme.
OptionUnmarked(themeKey, savedTheme) ==
    [theme |-> themeKey, active |-> FALSE, label |-> themes(themeKey).name]

\* The entry DOMContentLoaded creates for a key.
Option(themeKey, savedTheme) ==
    [theme |-> themeKey, active |-> (themeKey = savedTheme),
     label |-> themes(themeKey).name]

\* The click listener of a picker entry.
OptionClick(s, themeKey) == toggleThemeSelector(applyTheme(s, themeKey))

\* The overlay's timers run with one delay, hence in creation order, and
\* each does the same: their number is all the state they have.
CanApply == overlayEl => overlayTimers < MaxTimers

\* A page with any of the three elements, and any item a former session
\* left in the storage.
InitTheme ==
    /\ InitReactor
    /\ mascotEl = FALSE
    /\ bubbleEl = FALSE
    /\ present = {}
    /\ pendingLoad = {}
    /\ atsScore = Null
    /\ jobMatchScore = Null
    /\ grammarScore = Null
    /\ missingChildren = 0
    /\ FreshDocument
    /\ storedTheme \in {NoValue} \cup {Str(id) : id \in ThemeIds}
    /\ lastThemeName = NoValue
    /\ leftThemeName = NoValue
    /\ selectorEl \in BOOLEAN
    /\ buttonEl \in BOOLEAN
    /\ overlayEl \in BOOLEAN

\* The DOMContentLoaded listener: apply the saved theme, fill the picker,
\* switch smooth scrolling on.  (The page holds no card to observe.)
DOMContentLoaded ==
    /\ themePc = "loading"
    /\ CanApply
    /\ LET savedTheme == getSavedTheme(Switcher)
           applied == applyTheme(Switcher, savedTheme)
       IN  Shows(IF selectorEl
                 THEN [applied EXCEPT !.options =
                          @ \o [i \in DOMAIN ThemeKeys |->
                                   Option(ThemeKeys[i], savedTheme)]]
                 ELSE applied)
    /\ scrollBehavior' = "smooth"
    /\ themePc' = "ready"
    /\ UNCHANGED << reactor, selectorEl, buttonEl, overlayEl, leftThemeName >>

\* Any script of the page calls the global applyTheme.
CallApplyTheme(id) ==
    /\ CanApply
    /\ Shows(applyTheme(Switcher, id))
    /\ UNCHANGED << reactor, scrollBehavior, themePc, selectorEl, buttonEl,
                    overlayEl, leftThemeName >>

\* A click on the i-th picker entry: its own listener, then the document's.
ClickOption(i) ==
    /\ i \in DOMAIN options
    /\ CanApply
    /\ Shows(DocumentClick(OptionClick(Switcher, options[i].theme),
                           TRUE, FALSE))
    /\ UNCHANGED << reactor, scrollBehavior, themePc, selectorEl, buttonEl,
                    overlayEl, leftThemeName >>

\* A click on the toggle button, whose handler is toggleThemeSelector; the
\* document's listener follows.
ClickButton ==
    /\ selectorEl
    /\ buttonEl
    /\ Shows(DocumentClick(toggleThemeSelector(Switcher), FALSE, TRUE))
    /\ UNCHANGED << reactor, scrollBehavior, themePc, selectorEl, buttonEl,
                    overlayEl, leftThemeName >>

\* A click anywhere else (on nothing button-like: no ripple is drawn).
ClickOutside ==
    /\ Shows(DocumentClick(Switcher, FALSE, FALSE))
    /\ UNCHANGED << reactor, scrollBehavior, themePc, selectorEl, buttonEl,
                    overlayEl, leftThemeName >>

\* The oldest overlay timer fires: overlay.classList.remove('active').
OverlayTimer ==
    /\ overlayTimers > 0
    /\ overlayTimers' = overlayTimers - 1
    /\ overlayActive' = FALSE
    /\ UNCHANGED << reactor, storedTheme, dataTheme, options, selectorShow,
                    scrollBehavior, themePc, selectorEl, buttonEl, overlayEl,
                    lastThemeName, leftThemeName >>

\* The page is loaded again: a fresh document, the same storage.
Reload ==
    /\ themePc = "ready"
    /\ themePc' = "loading"
    /\ dataTheme' = NoValue
    /\ options' = <<>>
    /\ selectorShow' = FALSE
    /\ overlayActive' = FALSE
    /\ overlayTimers' = 0
    /\ scrollBehavior' = ""
    /\ lastThemeName' = NoValue
    /\ leftThemeName' = lastThemeName
    /\ UNCHANGED << reactor, storedTheme, selectorEl, buttonEl, overlayEl >>

NextTheme ==
    \/ DOMContentLoaded
    \/ \E id \in ThemeIds : CallApplyTheme(id)
    \/ \E i \in DOMAIN ThemeKeys : ClickOption(i)
    \/ ClickButton
    \/ ClickOutside
    \/ OverlayTimer
    \/ Reload

SpecTheme == InitTheme /\ [][NextTheme]_vars

(***************************************************************************)
(* Vocabulary of the properties                                            *)
(***************************************************************************)
HasTimer(q, fn) == \E i \in DOMAIN q : q[i].fn = fn

Fades(q) == {i \in DOMAIN q : q[i].fn = "fade"}

\* The expression shown once every pending fade has run: all fades have the
\* same delay, so they run in creation order and the newest one decides.
Settled(cur, q) ==
    IF Fades(q) = {} THEN cur
    ELSE q[CHOOSE i \in Fades(q) : \A j \in Fades(q) : j <= i].arg

\* The step in which the startup callback runs.
StartupFires == HasTimer(timers, "startup") /\ ~HasTimer(timers', "startup")

\* The step in which the pointer comes over (leaves) an element that has
\* listeners.
EnterStep(el) == el \notin hovered /\ el \in hovered' /\ listeners[el] # <<>>
LeaveStep(el) == el \in hovered /\ el \notin hovered' /\ listeners[el] # <<>>

\* The step in which the debounced reset of a hover-leave runs.
HoverResetFires == hoverTimeout = "pending" /\ hoverTimeout' = "fired"

LockExpiry == StartupDelay + UnlockDelay

(***************************************************************************)
(* C1: whenever the startup check finds a matching low-score rule, the     *)
(* mascot is locked showing the sad expression (at the latest once its     *)
(* fade has run), the caption is that rule's message and the caption       *)
(* colour is the alert colour; 5000 ms after the check the lock is gone    *)
(* and the caption colour is cleared.                                      *)
(***************************************************************************)
C1_LowScoreShowsSad ==
    /\ (lowScore /\ now < LockExpiry)
          => /\ isLocked
             /\ Settled(currentExpression, timers) = "sad"
             /\ bubbleText = sadMessage
             /\ bubbleColor = alertColor
    /\ (lowScore /\ now > LockExpiry)
          => /\ ~isLocked
             /\ bubbleColor = ""

(***************************************************************************)
(* C2: while isLocked holds no step (hover-enter, hover-leave, debounced   *)
(* reset, fade callback or any other) changes currentExpression or the     *)
(* caption text; the lock is held for exactly the 5000 ms after the        *)
(* startup check that took it, and once they have passed isLocked is       *)
(* false and the caption colour is empty.                                  *)
(***************************************************************************)
C2_LockInvariant ==
    /\ [][isLocked => /\ currentExpression' = currentExpression
                      /\ bubbleText' = bubbleText]_vars
    /\ [](isLocked => /\ lowScore
                      /\ now <= LockExpiry
                      /\ bubbleColor = alertColor)
    /\ []((lowScore /\ now < LockExpiry) => isLocked)
    /\ []((~isLocked /\ ~HasTimer(timers, "startup")) => bubbleColor = "")
    /\ [](now > LockExpiry => ~isLocked /\ bubbleColor = "")

\* Locked, after a debounced reset ran under the lock and the pointer came
\* over an element with listeners again.
C2_Witness ==
    /\ isLocked
    /\ hoverTimeout = "fired"
    /\ \E el \in hovered : listeners[el] # <<>>

(***************************************************************************)
(* C3: for every hover-enter on an element bound to a registered selector  *)
(* while unlocked, the caption at once equals that rule's message, and the *)
(* expression shown once the fade delay has passed is that rule's          *)
(* expression, whatever transitions came before and also with a fade of    *)
(* an earlier transition still pending.                                    *)
(***************************************************************************)
C3_HoverEnterShowsRule ==
    [][\A el \in Elements :
          (EnterStep(el) /\ ~isLocked) =>
             LET config == expressionMap(listeners[el][1])
             IN  /\ bubbleText' = config.message
                 /\ Settled(currentExpression', timers') = config.expression
      ]_vars

(***************************************************************************)
(* C4: a hover-leave arms the 300 ms debounce; unless a hover-enter (or a  *)
(* further hover-leave, which re-arms it) comes first, the debounce        *)
(* expires after 300 ms, and if the mascot is not locked then, the caption *)
(* is the default message from that step on and the expression shown once  *)
(* the fade delay has passed is standing.                                  *)
(***************************************************************************)
C4_HoverLeaveReverts ==
    /\ [][\A el \in Elements :
             LeaveStep(el) =>
                /\ hoverTimeout' = "pending"
                /\ \E i \in DOMAIN timers' :
                      /\ timers'[i].held
                      /\ timers'[i].fn = "resetMascot"
                      /\ timers'[i].rem = DebounceDelay
         ]_vars
    /\ [][(/\ hoverTimeout = "pending"
           /\ \A el \in Elements : ~EnterStep(el) /\ ~LeaveStep(el))
             => hoverTimeout' \in {"pending", "fired"}
         ]_vars
    /\ [][(HoverResetFires /\ ~isLocked) =>
             /\ bubbleText' = defaultMessage
             /\ Settled(currentExpression', timers') = "standing"
         ]_vars
    /\ [](hoverTimeout = "pending" =>
             /\ Cardinality({i \in DOMAIN timers : timers[i].held}) = 1
             /\ \A i \in DOMAIN timers :
                   timers[i].held => timers[i].rem <= DebounceDelay)

\* The debounced reset of a hover-leave has run unlocked: the caption is the
\* default one and the fade from the hovered rule's expression to standing
\* is on its way.
C4_Witness ==
    /\ hoverTimeout = "fired"
    /\ ~isLocked
    /\ hovered = {}
    /\ currentExpression = "happy"
    /\ bubbleText = defaultMessage
    /\ \E i \in DOMAIN timers :
          timers[i].fn = "fade" /\ timers[i].arg = "standing"

(***************************************************************************)
(* C5: at most one timer whose callback is resetMascot is pending at any   *)
(* time.                                                                   *)
(***************************************************************************)
C5_OneResetTimer ==
    Cardinality({i \in DOMAIN timers : timers[i].fn = "resetMascot"}) <= 1

(***************************************************************************)
(* The four low-score rules, stated one by one                             *)
(***************************************************************************)
Rules == 1..4

RuleHolds(k) ==
    CASE k = 1 -> /\ atsScore.present
                  /\ LessThan(ParseInt(atsScore.textContent), AtsThreshold)
      [] k = 2 -> /\ jobMatchScore.present
                  /\ LessThan(ParseInt(jobMatchScore.textContent),
                              JobMatchThreshold)
      [] k = 3 -> /\ grammarScore.present
                  /\ LessThan(ParseInt(grammarScore.textContent),
                              GrammarThreshold)
      [] k = 4 -> /\ "skills" \in present
                  /\ missingChildren > MissingSkillsLimit

RuleMessage(k) ==
    CASE k = 1 -> atsMessage
      [] k = 2 -> jobMatchMessage
      [] k = 3 -> grammarMessage
      [] k = 4 -> missingSkillsMessage

SomeScorePresent ==
    atsScore.present \/ jobMatchScore.present \/ grammarScore.present

\* The startup check leaves the display as it found it and schedules
\* nothing.
NoScoreReaction ==
    /\ isLocked' = isLocked
    /\ currentExpression' = currentExpression
    /\ bubbleText' = bubbleText
    /\ bubbleColor' = bubbleColor
    /\ mascotSrc' = mascotSrc
    /\ mascotOpacity' = mascotOpacity
    /\ \A fn \in {"fade", "resetMascot", "unlock"} : ~HasTimer(timers', fn)

(***************************************************************************)
(* C6: if at the startup check no low-score rule matches and at least one  *)
(* of the ATS, job-match and grammar readouts is present, the check shows  *)
(* the happy expression (once its fade has run) with the congratulatory    *)
(* message, and schedules the revert to the default state 3000 ms later.   *)
(***************************************************************************)
C6_GoodScoresCongratulate ==
    [][(/\ StartupFires
        /\ \A k \in Rules : ~RuleHolds(k)
        /\ SomeScorePresent)
          => /\ bubbleText' = goodMessage
             /\ Settled(currentExpression', timers') = "happy"
             /\ \E i \in DOMAIN timers' :
                   /\ timers'[i].fn = "resetMascot"
                   /\ timers'[i].rem = GoodDelay
      ]_vars

(***************************************************************************)
(* C7: if none of the three score readouts is present, the startup check   *)
(* makes no score-reaction transition, whatever the rest of the page holds *)
(* (the .missing-skills list included).                                    *)
(***************************************************************************)
C7_NoScoresNoReaction ==
    [][(StartupFires /\ ~SomeScorePresent) => NoScoreReaction]_vars

(***************************************************************************)
(* C7 as amended: if none of the three score readouts is present and the   *)
(* document holds no .missing-skills list with more than 5 children, the   *)
(* startup check makes no score-reaction transition: isLocked, the         *)
(* expression, the caption text and colour and the image stay as they are  *)
(* and no fade, reset or unlock timer is pending after it.                 *)
(***************************************************************************)
C7_NoScoresShortListNoReaction ==
    [][(StartupFires /\ ~SomeScorePresent /\ ~RuleHolds(4))
          => NoScoreReaction]_vars

\* The startup check has run on a page with no score readout and a
\* .missing-skills list of at most 5 children, and the lock is not taken.
C7_Witness ==
    /\ pc = "on"
    /\ ~HasTimer(timers, "startup")
    /\ ~SomeScorePresent
    /\ "skills" \in marker
    /\ missingChildren = MissingSkillsLimit
    /\ now = StartupDelay
    /\ ~isLocked
    /\ bubbleText = defaultMessage

(***************************************************************************)
(* C8: the startup check takes the lock if and only if at least one of the *)
(* four rules holds, and then the sad message it selects is the message of *)
(* the first rule, in the order ATS, job-match, grammar, missing skills,   *)
(* that holds.                                                             *)
(***************************************************************************)
C8_FirstMatchWins ==
    [][StartupFires =>
          LET matching == {k \in Rules : RuleHolds(k)}
          IN  /\ isLocked' <=> (matching # {})
              /\ lowScore' <=> (matching # {})
              /\ matching # {} =>
                    \E k \in matching :
                       /\ \A j \in matching : k <= j
                       /\ sadMessage' = RuleMessage(k)
              /\ matching = {} => sadMessage' = ""
      ]_vars

\* The check has run on a page where the job-match rule holds, the ATS rule
\* does not, and two later rules hold as well: the job-match message is
\* the one selected.
C8_Witness ==
    /\ ~HasTimer(timers, "startup")
    /\ pc = "on"
    /\ ~RuleHolds(1) /\ atsScore.present
    /\ RuleHolds(2) /\ RuleHolds(3) /\ RuleHolds(4)
    /\ isLocked
    /\ sadMessage = jobMatchMessage

(***************************************************************************)
(* C9: after any number of scans every element holds at most one           *)
(* mouseenter/mouseleave listener pair: an element has a pair exactly when *)
(* it carries the marker, and the pair is bound to a selector the element  *)
(* matches.                                                                *)
(***************************************************************************)
C9_OneListenerPair ==
    \A el \in Elements :
       /\ Len(listeners[el]) <= 1
       /\ (el \in marker) <=> (Len(listeners[el]) = 1)
       /\ \A i \in DOMAIN listeners[el] : listeners[el][i] \in Matches(el)

\* Several interval scans after the startup scan: the anchor that matches
\* two selectors and the element loaded later are both bound.
C9_Witness ==
    /\ now > StartupDelay + RescanInterval
    /\ listeners["link"] # <<>>
    /\ listeners["field"] # <<>>
    /\ hovered = {"field"}
    /\ hoverTimeout = "cleared"

(***************************************************************************)
(* C10: if the mascot image or the caption element is absent at startup,   *)
(* the script sets nothing up: no timer is ever pending, no element gets a *)
(* listener or the marker, and the page is left as the template rendered   *)
(* it.                                                                     *)
(***************************************************************************)
C10_NoInitWithoutElements ==
    (~mascotEl \/ ~bubbleEl) =>
       /\ pc # "on"
       /\ timers = <<>>
       /\ marker = {}
       /\ \A el \in Elements : listeners[el] = <<>>
       /\ bubbleText = templateCaption
       /\ bubbleColor = ""
       /\ mascotSrc = templateImage
       /\ mascotOpacity = ""
       /\ mascotTransition = ""
       /\ currentExpression = "standing"
       /\ ~isLocked
       /\ hoverTimeout = "null"

\* The script has returned at its guard, time has passed and the pointer is
\* over an element that matches registered selectors.
C10_Witness ==
    /\ pc = "off"
    /\ mascotEl /\ ~bubbleEl
    /\ now = Horizon
    /\ "link" \in hovered

(***************************************************************************)
(* The theme switcher's properties                                         *)
(***************************************************************************)
\* The keys of the picker entries that carry the active marker.
ActiveKeys(opts) == {opts[i].theme : i \in {j \in DOMAIN opts : opts[j].active}}

\* The number of picker entries that carry the active marker.
ActiveCount(opts) == Cardinality({j \in DOMAIN opts : opts[j].active})

CatalogKeys == {ThemeKeys[i] : i \in DOMAIN ThemeKeys}

\* C11: once applyTheme has been called in a document, the root attribute,
\* the storage item and the id of the latest call are the same string, and
\* a picker entry carries the active marker exactly when its key is that id.
C11_AppliedThemeAgrees ==
    lastThemeName.has =>
       /\ dataTheme = lastThemeName
       /\ storedTheme = lastThemeName
       /\ \A i \in DOMAIN options :
             options[i].active <=> (options[i].theme = lastThemeName.value)

\* C11's case: with the picker filled and ocean marked, a call with sunset
\* has moved the marker.
C11_Witness ==
    /\ themePc = "ready"
    /\ lastThemeName = Str("sunset")
    /\ Len(options) = Len(ThemeKeys)
    /\ ActiveKeys(options) = {"sunset"}
    /\ leftThemeName = Str("ocean")

\* C12 as stated: after initialization, on a page with the picker, exactly
\* one entry carries the active marker, the entry of the stored theme.
C12_ExactlyOneActive ==
    (themePc = "ready" /\ selectorEl) =>
       /\ ActiveCount(options) = 1
       /\ storedTheme.has
       /\ ActiveKeys(options) = {storedTheme.value}

\* C12, amended: after initialization, on a page with the picker, an entry
\* carries the active marker exactly when its key is the stored id: one
\* entry when the stored id is a catalog key, none when it is not.
C12_ActiveFollowsStored ==
    (themePc = "ready" /\ selectorEl) =>
       /\ storedTheme.has
       /\ Len(options) = Len(ThemeKeys)
       /\ \A i \in DOMAIN options :
             /\ options[i].theme = ThemeKeys[i]
             /\ options[i].active <=> (ThemeKeys[i] = storedTheme.value)
       /\ ActiveCount(options) =
             IF storedTheme.value \in CatalogKeys THEN 1 ELSE 0

\* C12's case: the former session left an id the catalog does not hold,
\* the load applied it, and a later call chose forest.
C12_Witness ==
    /\ themePc = "ready"
    /\ selectorEl
    /\ leftThemeName = Str("neon")
    /\ storedTheme = Str("forest")
    /\ ActiveKeys(options) = {"forest"}
    /\ ActiveCount(options) = 1

\* The DOMContentLoaded listener runs in a document in which applyTheme
\* has not been called yet.
LoadStep ==
    /\ themePc = "loading"
    /\ themePc' = "ready"
    /\ ~lastThemeName.has

\* C13: for every catalog id t, when the latest applyTheme call of a
\* session was applyTheme(t) and the page (one with the picker) is loaded
\* again, the load leaves t as the root attribute and exactly one picker
\* entry active, the entry of t.
C13_RoundTrip ==
    [][(/\ LoadStep
        /\ selectorEl
        /\ leftThemeName.has
        /\ leftThemeName.value \in CatalogKeys)
       => /\ dataTheme' = leftThemeName
          /\ ActiveCount(options') = 1
          /\ ActiveKeys(options') = {leftThemeName.value}]_vars

\* C13's case: the session ended on applyTheme('ocean'), and the next load
\* has run.
C13_Witness ==
    /\ themePc = "ready"
    /\ selectorEl
    /\ leftThemeName = Str("ocean")
    /\ lastThemeName = Str("ocean")
    /\ dataTheme = Str("ocean")
    /\ ActiveKeys(options) = {"ocean"}
    /\ scrollBehavior = "smooth"

\* C14: for every string id, applyTheme(id) leaves id as the root attribute
\* and in the storage, and when it was the session's latest call the next
\* load reads the same id back and applies it; a load uses the default
\* only when the storage holds no theme item.
C14_AnyStringRoundTrip ==
    /\ [](lastThemeName.has =>
             dataTheme = lastThemeName /\ storedTheme = lastThemeName)
    /\ [][(LoadStep /\ leftThemeName.has)
          => /\ dataTheme' = leftThemeName
             /\ storedTheme' = leftThemeName]_vars
    /\ [][(LoadStep /\ storedTheme.has) => dataTheme' = storedTheme]_vars

\* C15: a click on a picker entry applies that entry's theme and leaves
\* the picker closed, whether it was open or closed before the click (the
\* document's click listener has run as well).
C15_EntryClickClosesPicker ==
    [][\A i \in DOMAIN ThemeKeys :
          ClickOption(i) => /\ dataTheme' = Str(options[i].theme)
                            /\ storedTheme' = Str(options[i].theme)
                            /\ ~selectorShow']_vars

(***************************************************************************)
(* C16: the lock is taken at most once per page load, by the startup       *)
(* check alone, which runs once; at most one unlock timer is ever pending, *)
(* and it is the timer scheduled with the lock that is held; and every     *)
(* lock is released: once isLocked is true it becomes false again, in the  *)
(* step in which that timer fires 5000 ms after the check, whatever the    *)
(* pointer does in between.                                                *)
(***************************************************************************)
UnlockTimers(q) == {i \in DOMAIN q : q[i].fn = "unlock"}

C16_LockReleased ==
    /\ [][(~isLocked /\ isLocked') => StartupFires]_vars
    /\ [][(pc # "load" /\ ~HasTimer(timers, "startup"))
          => ~HasTimer(timers', "startup")]_vars
    /\ [](Cardinality(UnlockTimers(timers)) <= 1)
    /\ [](isLocked <=> HasTimer(timers, "unlock"))
    /\ [](\A i \in UnlockTimers(timers) :
             timers[i].rem = LockExpiry - now)
    /\ [][(isLocked /\ ~isLocked')
          => /\ now = LockExpiry
             /\ UnlockTimers(timers') = {}]_vars
    /\ (isLocked ~> ~isLocked)

\* The lock has been released at its expiry although the pointer came over
\* an element with listeners while it was held and is still there.
C16_Witness ==
    /\ lowScore
    /\ ~isLocked
    /\ now >= LockExpiry
    /\ bubbleColor = ""
    /\ hoverTimeout = "cleared"
    /\ "card" \in hovered
    /\ ~HasTimer(timers, "unlock")

(***************************************************************************)
(* C17: an element that matches several registry selectors is bound to     *)
(* exactly one rule, that of the first matching selector in registry       *)
(* order, on the first scan that finds it and on every later scan; and a   *)
(* hover-enter on it while unlocked shows that rule's message and, once    *)
(* the fade delay has passed, that rule's expression.                      *)
(***************************************************************************)
FirstMatch(el) ==
    Selectors[CHOOSE i \in DOMAIN Selectors :
                 /\ Selectors[i] \in Matches(el)
                 /\ \A j \in 1..(i - 1) : Selectors[j] \notin Matches(el)]

SeveralMatch == {el \in Elements : Cardinality(Matches(el)) > 1}

\* The binding alone: one listener pair, of the first matching selector.
C17_BoundToFirstMatch ==
    \A el \in SeveralMatch :
       /\ el \in marker => listeners[el] = << FirstMatch(el) >>
       /\ el \notin marker => listeners[el] = <<>>

C17_FirstMatchRuleShown ==
    /\ [](C17_BoundToFirstMatch)
    /\ [][\A el \in SeveralMatch :
             (EnterStep(el) /\ ~isLocked) =>
                LET config == expressionMap(FirstMatch(el))
                IN  /\ bubbleText' = config.message
                    /\ Settled(currentExpression', timers') = config.expression
         ]_vars

(***************************************************************************)
(* C18: currentExpression is always one of standing, happy, thinking and   *)
(* sad; every fade callback leaves the image equal to the resource mapped  *)
(* to currentExpression; and once they agree no step makes them disagree,  *)
(* so they agree in every state that follows a fade callback.              *)
(***************************************************************************)
FadeFires == Cardinality(Fades(timers')) < Cardinality(Fades(timers))

ImageAgrees == mascotSrc = expressions(currentExpression)

C18_ImageMatchesExpression ==
    /\ [](currentExpression \in Expressions)
    /\ [][FadeFires => ImageAgrees']_vars
    /\ [][ImageAgrees => ImageAgrees']_vars
    /\ [](mascotOpacity = "1" => ImageAgrees)
    /\ [][(\/ mascotSrc' # mascotSrc
           \/ currentExpression' # currentExpression) => FadeFires]_vars

\* A fade to thinking has completed, image and record changed together,
\* and the next fade is pending.
C18_Witness ==
    /\ mascotOpacity = "1"
    /\ currentExpression = "thinking"
    /\ mascotSrc = "fox_thinking.png"
    /\ HasTimer(timers, "fade")

(***************************************************************************)
(* C19: at the startup check, a readout that is present and whose text     *)
(* does not parse to a number does not satisfy its rule (the sad message   *)
(* is never that rule's) and does not take the lock: if no rule matches on *)
(* the parsed readouts and the list, the page stays unlocked; and if, in   *)
(* that case, the unparsed readout is the ATS or the job-match one, the    *)
(* check shows the congratulatory message and the happy expression and     *)
(* schedules the revert.                                                   *)
(***************************************************************************)
Unparsed(r) == r.present /\ ParseInt(r.textContent).isNaN

ParsedBelow(r, limit) ==
    /\ r.present
    /\ ~ParseInt(r.textContent).isNaN
    /\ ParseInt(r.textContent).value < limit

OtherRuleMatches ==
    \/ ParsedBelow(atsScore, AtsThreshold)
    \/ ParsedBelow(jobMatchScore, JobMatchThreshold)
    \/ ParsedBelow(grammarScore, GrammarThreshold)
    \/ ("skills" \in present /\ missingChildren > MissingSkillsLimit)

C19_UnparsedReadoutIsGood ==
    [][StartupFires =>
          /\ Unparsed(atsScore) => sadMessage' # atsMessage
          /\ Unparsed(jobMatchScore) => sadMessage' # jobMatchMessage
          /\ Unparsed(grammarScore) => sadMessage' # grammarMessage
          /\ ( /\ ~OtherRuleMatches
               /\ \/ Unparsed(atsScore)
                  \/ Unparsed(jobMatchScore)
                  \/ Unparsed(grammarScore) )
                => /\ ~isLocked'
                   /\ ~lowScore'
                   /\ bubbleColor' = bubbleColor
                   /\ ~HasTimer(timers', "unlock")
          /\ (~OtherRuleMatches
                 /\ (Unparsed(atsScore) \/ Unparsed(jobMatchScore)))
                => /\ bubbleText' = goodMessage
                   /\ Settled(currentExpression', timers') = "happy"
                   /\ \E i \in DOMAIN timers' :
                         /\ timers'[i].fn = "resetMascot"
                         /\ timers'[i].rem = GoodDelay
      ]_vars

\* The only readout is an ATS placeholder, and the check has congratulated.
C19_Witness ==
    /\ atsScore = Readout(<<"N", "/", "A">>)
    /\ jobMatchScore = Null
    /\ grammarScore = Null
    /\ ~isLocked
    /\ ~lowScore
    /\ currentExpression = "happy"
    /\ bubbleText = goodMessage
    /\ now < StartupDelay + GoodDelay

====
